---- MODULE Spec2Model ----
(***************************************************************************)
(* A model of the recipe store of Recipe_finder.py (class RecipeFinder)    *)
(* and of the calls App.py makes on it.                                    *)
(*                                                                         *)
(* Representation of Python values:                                        *)
(*   str that is lower-cased or searched  a sequence of one-character      *)
(*                                        strings ("Pie" is <<"P","i","e">>)*)
(*   ingredient                           an opaque TLA+ string            *)
(*   int                                  an integer                       *)
(*   float rating                         the integer number of tenths     *)
(*                                        (4.5 is 45; the UI slider moves  *)
(*                                        in steps of 0.1)                 *)
(*   Optional[T]                          <<>> for None, <<v>> for v       *)
(*   dict                                 a sequence of <<key, value>>     *)
(*                                        pairs in insertion order         *)
(*   a recipe (inner dict)                a function on FIELDS             *)
(***************************************************************************)
EXTENDS Integers, Sequences, FiniteSets, TLC

VARIABLES
    pc,        \* "new" before RecipeFinder() runs, then "ready", or "failed" when __init__ raised
    recipes,   \* self.recipes
    storage,   \* the file self.data_file: [kind, doc]
    added,     \* the <<name, recipe>> pairs inserted by add_recipe in this session, in order
    last       \* the most recent call: [op, args, raised, result]

vars == <<pc, recipes, storage, added, last>>

(***************************************************************************)
(* Bounds                                                                  *)
(***************************************************************************)
MaxAdds == 2

(***************************************************************************)
(* String literals                                                         *)
(***************************************************************************)
Spaghetti_Carbonara == <<"S", "p", "a", "g", "h", "e", "t", "t", "i", " ", "C", "a", "r", "b", "o", "n", "a", "r", "a">>
Chicken_Tikka_Masala == <<"C", "h", "i", "c", "k", "e", "n", " ", "T", "i", "k", "k", "a", " ", "M", "a", "s", "a", "l", "a">>
Avocado_Toast == <<"A", "v", "o", "c", "a", "d", "o", " ", "T", "o", "a", "s", "t">>
Italian == <<"I", "t", "a", "l", "i", "a", "n">>
Indian == <<"I", "n", "d", "i", "a", "n">>
American == <<"A", "m", "e", "r", "i", "c", "a", "n">>
Medium == <<"M", "e", "d", "i", "u", "m">>
Hard == <<"H", "a", "r", "d">>
Easy == <<"E", "a", "s", "y">>
French == <<"F", "r", "e", "n", "c", "h">>
ITALIAN == <<"I", "T", "A", "L", "I", "A", "N">>
italian == <<"i", "t", "a", "l", "i", "a", "n">>
Chicken == <<"C", "h", "i", "c", "k", "e", "n">>
Thai == <<"T", "h", "a", "i">>
HARD == <<"H", "A", "R", "D">>
easy == <<"e", "a", "s", "y">>
Pie == <<"P", "i", "e">>
pi == <<"p", "i">>
PI == <<"P", "I">>
ie == <<"i", "e">>
toast == <<"t", "o", "a", "s", "t">>
EmptyStr == <<>>

None == <<>>
Some(v) == <<v>>

UpperCase == <<"A", "B", "C", "D", "E", "F", "G", "H", "I", "J", "K", "L", "M", "N", "O", "P", "Q", "R", "S", "T", "U", "V", "W", "X", "Y", "Z">>
LowerCase == <<"a", "b", "c", "d", "e", "f", "g", "h", "i", "j", "k", "l", "m", "n", "o", "p", "q", "r", "s", "t", "u", "v", "w", "x", "y", "z">>

\* the lower-case letter of every upper-case letter
LowerOf ==
    [c \in {UpperCase[i] : i \in 1..Len(UpperCase)} |->
        LowerCase[CHOOSE i \in 1..Len(UpperCase) : UpperCase[i] = c]]

\* str.lower() on one character
lower_char(c) == IF c \in DOMAIN LowerOf THEN LowerOf[c] ELSE c

\* str.lower()
lower(s) == [i \in 1..Len(s) |-> lower_char(s[i])]

\* Python's `sub in s` on strings
str_in(sub, s) ==
    \E i \in 0..(Len(s) - Len(sub)) : SubSeq(s, i + 1, i + Len(sub)) = sub

\* Python truthiness of an Optional[str]: None and "" are falsy
truthy_str(o) == Len(o) = 1 /\ Len(o[1]) > 0

\* `o is not None` in place of truthiness: zero counts as a constraint
is_not_none(o) == Len(o) = 1

\* Python truthiness of an Optional number: None, 0 and 0.0 are falsy
truthy_num(o) == Len(o) = 1 /\ o[1] # 0

(***************************************************************************)
(* Recipes and the collection                                              *)
(***************************************************************************)
FIELDS == {"Cuisine", "Ingredients", "Prep Time", "Difficulty", "Rating"}

\* the dict literal add_recipe builds (and the literals of the sample data)
MkRecipe(cuisine, ingredients, prep_time, difficulty, rating) ==
    [k \in FIELDS |->
        CASE k = "Cuisine" -> cuisine
          [] k = "Ingredients" -> ingredients
          [] k = "Prep Time" -> prep_time
          [] k = "Difficulty" -> difficulty
          [] k = "Rating" -> rating]

\* the fallback sample data of _load_recipes
SAMPLE ==
    << <<Spaghetti_Carbonara, MkRecipe(Italian, <<"Pasta", "Eggs", "Cheese", "Bacon">>, 20, Medium, Some(45))>>,
       <<Chicken_Tikka_Masala, MkRecipe(Indian, <<"Chicken", "Yogurt", "Spices", "Tomato Sauce">>, 45, Hard, Some(48))>>,
       <<Avocado_Toast, MkRecipe(American, <<"Bread", "Avocado", "Salt", "Pepper">>, 5, Easy, Some(37))>> >>

\* dict.keys(), in iteration order
keys(d) == [i \in 1..Len(d) |-> d[i][1]]

\* `name in self.recipes`
has_key(d, name) == \E i \in 1..Len(d) : d[i][1] = name

\* self.recipes[name] = recipe, for a dict that keeps insertion order
dict_set(d, name, recipe) ==
    IF has_key(d, name)
    THEN [i \in 1..Len(d) |-> IF d[i][1] = name THEN <<name, recipe>> ELSE d[i]]
    ELSE Append(d, <<name, recipe>>)

(***************************************************************************)
(* JSON: json.dump writes a document, json.load reads one back.            *)
(* A document is the sequence of the members of the top-level object; a    *)
(* member is <<key, object>> and an object a sequence of <<key, value>>;   *)
(* a value is [t |-> "string" | "number" | "array" | "null", v |-> ...].   *)
(***************************************************************************)
JString(s) == [t |-> "string", v |-> s]
JNumber(n) == [t |-> "number", v |-> n]
JArray(a) == [t |-> "array", v |-> [i \in 1..Len(a) |-> JString(a[i])]]
JNull == [t |-> "null", v |-> 0]

\* json.dump of a rating: None becomes null
dump_optional(o) == IF Len(o) = 0 THEN JNull ELSE JNumber(o[1])

\* json.dump of one recipe dict
dump_recipe(r) ==
    << <<"Cuisine", JString(r["Cuisine"])>>,
       <<"Ingredients", JArray(r["Ingredients"])>>,
       <<"Prep Time", JNumber(r["Prep Time"])>>,
       <<"Difficulty", JString(r["Difficulty"])>>,
       <<"Rating", dump_optional(r["Rating"])>> >>

\* json.dump(self.recipes, f, indent=4)
json_dump(d) == [i \in 1..Len(d) |-> <<d[i][1], dump_recipe(d[i][2])>>]

\* the value of member `key` of a JSON object
member(obj, key) == obj[CHOOSE i \in 1..Len(obj) : obj[i][1] = key][2]

\* json.load of a rating: null becomes None
load_optional(j) == IF j.t = "null" THEN None ELSE Some(j.v)

\* json.load of one recipe object
load_recipe(obj) ==
    [k \in {obj[i][1] : i \in 1..Len(obj)} |->
        CASE k = "Ingredients" -> [i \in 1..Len(member(obj, k).v) |-> member(obj, k).v[i].v]
          [] k = "Rating" -> load_optional(member(obj, k))
          [] OTHER -> member(obj, k).v]

\* json.load(f) of a well-formed document
json_load(doc) == [i \in 1..Len(doc) |-> <<doc[i][1], load_recipe(doc[i][2])>>]

(***************************************************************************)
(* The storage file                                                        *)
(***************************************************************************)
\* no file at data_file: open() raises FileNotFoundError
FileMissing == [kind |-> "missing", doc |-> <<>>]
\* text that is not JSON (empty, truncated, syntax error): json.load raises JSONDecodeError
FileMalformed == [kind |-> "malformed", doc |-> <<>>]
\* bytes that are not UTF-8: f.read() raises UnicodeDecodeError
FileUndecodable == [kind |-> "undecodable", doc |-> <<>>]
\* a well-formed document
FileJson(doc) == [kind |-> "json", doc |-> doc]

\* RecipeFinder._load_recipes: the except clause catches FileNotFoundError and
\* json.JSONDecodeError only
_load_recipes(file) ==
    CASE file.kind = "json" -> [raised |-> FALSE, value |-> json_load(file.doc)]
      [] file.kind \in {"missing", "malformed"} -> [raised |-> FALSE, value |-> SAMPLE]
      [] OTHER -> [raised |-> TRUE, value |-> <<>>]

\* save_recipes dumping only the entry inserted last instead of the whole dict
save_recipes_last_only(d, file, io) ==
    CASE io = "ok" -> [raised |-> FALSE, file |-> FileJson(json_dump(<<d[Len(d)]>>))]
      [] io = "denied" -> [raised |-> TRUE, file |-> file]
      [] OTHER -> [raised |-> TRUE, file |-> FileMalformed]

\* save_recipes whose failure is raised only after the document has been written
save_recipes_late_error(d, file, io) ==
    CASE io = "ok" -> [raised |-> FALSE, file |-> FileJson(json_dump(d))]
      [] OTHER -> [raised |-> TRUE, file |-> FileJson(json_dump(d))]

\* RecipeFinder.save_recipes; io is what the file system does:
\*   "ok"      mkdir and open succeed and the document is written
\*   "denied"  mkdir or open raises (OSError) and the file is untouched
\*   "partial" open has truncated the file and a write raises (OSError)
save_recipes(d, file, io) ==
    CASE io = "ok" -> [raised |-> FALSE, file |-> FileJson(json_dump(d))]
      [] io = "denied" -> [raised |-> TRUE, file |-> file]
      [] OTHER -> [raised |-> TRUE, file |-> FileMalformed]

(***************************************************************************)
(* Queries                                                                 *)
(***************************************************************************)
\* get_cuisine_recommendations comparing with the input as typed
get_cuisine_recommendations_cased(d, cuisine) ==
    keys(SelectSeq(d, LAMBDA item : lower(item[2]["Cuisine"]) = cuisine))

\* RecipeFinder.get_cuisine_recommendations
get_cuisine_recommendations(d, cuisine) ==
    keys(SelectSeq(d, LAMBDA item : lower(item[2]["Cuisine"]) = lower(cuisine)))

\* search_recipes looking for the query as typed
search_recipes_cased(d, query) ==
    SelectSeq(keys(d), LAMBDA name : str_in(query, lower(name)))

\* RecipeFinder.search_recipes
search_recipes(d, query) ==
    SelectSeq(keys(d), LAMBDA name : str_in(lower(query), lower(name)))

\* one iteration of the loop of filter_recipes: does evaluating the three
\* conditions raise?  None < float is a TypeError.
filter_raises(recipe, difficulty, max_time, min_rating) ==
    truthy_num(min_rating) /\ Len(recipe["Rating"]) = 0

\* one iteration of the loop of filter_recipes: the value of `matches`
filter_matches(recipe, difficulty, max_time, min_rating) ==
    /\ ~(truthy_str(difficulty) /\ lower(recipe["Difficulty"]) # lower(difficulty[1]))
    /\ ~(truthy_num(max_time) /\ recipe["Prep Time"] > max_time[1])
    /\ ~(truthy_num(min_rating) /\ recipe["Rating"][1] < min_rating[1])

RECURSIVE filter_loop(_, _, _, _, _, _)
\* the for loop of filter_recipes from item i on, with `filtered` so far
filter_loop(d, i, filtered, difficulty, max_time, min_rating) ==
    IF i > Len(d) THEN [raised |-> FALSE, value |-> filtered]
    ELSE IF filter_raises(d[i][2], difficulty, max_time, min_rating)
         THEN [raised |-> TRUE, value |-> <<>>]
         ELSE filter_loop(d, i + 1,
                          IF filter_matches(d[i][2], difficulty, max_time, min_rating)
                          THEN Append(filtered, d[i][1]) ELSE filtered,
                          difficulty, max_time, min_rating)

\* RecipeFinder.filter_recipes
filter_recipes(d, difficulty, max_time, min_rating) ==
    filter_loop(d, 1, <<>>, difficulty, max_time, min_rating)

\* RecipeFinder.get_recipe_details: dict.get, None when the key is missing
get_recipe_details(d, name) ==
    IF has_key(d, name)
    THEN Some(d[CHOOSE i \in 1..Len(d) : d[i][1] = name][2])
    ELSE None

(***************************************************************************)
(* add_recipe                                                              *)
(***************************************************************************)
\* add_recipe without the existence check: an existing entry is overwritten
add_recipe_overwrite(d, name, cuisine, ingredients, prep_time, difficulty, rating) ==
    [exists |-> FALSE,
     recipes |-> dict_set(d, name, MkRecipe(cuisine, ingredients, prep_time, difficulty, rating))]

\* add_recipe storing `rating or 0.0`: an omitted rating becomes zero
add_recipe_zero_rating(d, name, cuisine, ingredients, prep_time, difficulty, rating) ==
    IF has_key(d, name)
    THEN [exists |-> TRUE, recipes |-> d]
    ELSE [exists |-> FALSE,
          recipes |-> dict_set(d, name, MkRecipe(cuisine, ingredients, prep_time, difficulty,
                                                 IF Len(rating) = 0 THEN Some(0) ELSE rating))]

\* RecipeFinder.add_recipe up to the call of save_recipes: the early return
\* and the insertion
add_recipe(d, name, cuisine, ingredients, prep_time, difficulty, rating) ==
    IF has_key(d, name)
    THEN [exists |-> TRUE, recipes |-> d]
    ELSE [exists |-> FALSE,
          recipes |-> dict_set(d, name, MkRecipe(cuisine, ingredients, prep_time, difficulty, rating))]

(***************************************************************************)
(* Inputs                                                                  *)
(***************************************************************************)
\* arguments of the calls the session makes
AddNames == {Pie, pi, Avocado_Toast}
AddFields ==
    { MkRecipe(EmptyStr, <<>>, 1, easy, None),
      MkRecipe(italian, <<"Egg", "Salt">>, 30, Hard, Some(0)) }
IoOutcomes == {"ok", "denied", "partial"}
CuisineInputs == {EmptyStr, ITALIAN, italian, French}
QueryInputs == {EmptyStr, Chicken, PI, ie}
FilterInputs ==
    { <<None, None, None>>,
      <<Some(Easy), Some(30), None>>,
      <<Some(HARD), None, None>>,
      <<Some(EmptyStr), None, None>>,
      <<None, Some(0), None>>,
      <<None, Some(5), None>>,
      <<None, None, Some(0)>>,
      <<None, None, Some(40)>> }
DetailInputs == {Pie, Avocado_Toast, EmptyStr}

\* the arguments the properties below range over
CuisineDomain == CuisineInputs \cup {Italian, Thai, American}
QueryDomain == QueryInputs \cup {toast, pi, Spaghetti_Carbonara}
DifficultyDomain == {None, Some(EmptyStr), Some(Easy), Some(HARD), Some(easy)}
MaxTimeDomain == {None, Some(0), Some(5), Some(30)}
MinRatingDomain == {None, Some(0), Some(40), Some(50)}
NameDomain == DetailInputs \cup AddNames \cup {Chicken_Tikka_Masala, Chicken}

\* what the file at data_file can hold when the session starts
InitialFiles ==
    { FileMissing, FileMalformed, FileUndecodable,
      FileJson(<<>>),
      FileJson(json_dump(SAMPLE)),
      FileJson(json_dump(<< <<Pie, MkRecipe(French, <<"Apple">>, 60, Medium, Some(20))>>,
                            <<Spaghetti_Carbonara, MkRecipe(ITALIAN, <<"Pasta">>, 25, easy, Some(40))>> >>)) }

(***************************************************************************)
(* The state machine                                                       *)
(***************************************************************************)
NoCall == [op |-> "none", args |-> <<>>, raised |-> FALSE, result |-> <<>>]

Init ==
    /\ pc = "new"
    /\ recipes = <<>>
    /\ storage \in InitialFiles
    /\ added = <<>>
    /\ last = NoCall

\* RecipeFinder.__init__ (App.py creates the one store of the session)
Construct ==
    /\ pc = "new"
    /\ LET r == _load_recipes(storage) IN
        /\ pc' = IF r.raised THEN "failed" ELSE "ready"
        /\ recipes' = r.value
        /\ last' = [op |-> "__init__", args |-> <<>>, raised |-> r.raised, result |-> <<>>]
    /\ UNCHANGED <<storage, added>>

\* a call of add_recipe
Add ==
    /\ pc = "ready"
    /\ \E name \in AddNames, f \in AddFields, io \in IoOutcomes :
        LET a == add_recipe(recipes, name, f["Cuisine"], f["Ingredients"], f["Prep Time"],
                            f["Difficulty"], f["Rating"])
            s == save_recipes(a.recipes, storage, io)
            args == <<name, f>>
        IN  IF a.exists
            THEN /\ last' = [op |-> "add_recipe", args |-> args, raised |-> FALSE, result |-> FALSE]
                 /\ UNCHANGED <<recipes, storage, added>>
            ELSE /\ Len(added) < MaxAdds
                 /\ recipes' = a.recipes
                 /\ storage' = s.file
                 /\ added' = Append(added, <<name, f>>)
                 /\ last' = [op |-> "add_recipe", args |-> args, raised |-> s.raised,
                             result |-> ~s.raised]
    /\ UNCHANGED pc

\* a call of get_cuisine_recommendations
Recommend ==
    /\ pc = "ready"
    /\ \E cuisine \in CuisineInputs :
        last' = [op |-> "get_cuisine_recommendations", args |-> <<cuisine>>, raised |-> FALSE,
                 result |-> get_cuisine_recommendations(recipes, cuisine)]
    /\ UNCHANGED <<pc, recipes, storage, added>>

\* a call of search_recipes
Search ==
    /\ pc = "ready"
    /\ \E query \in QueryInputs :
        last' = [op |-> "search_recipes", args |-> <<query>>, raised |-> FALSE,
                 result |-> search_recipes(recipes, query)]
    /\ UNCHANGED <<pc, recipes, storage, added>>

\* a call of filter_recipes
Filter ==
    /\ pc = "ready"
    /\ \E in \in FilterInputs :
        LET r == filter_recipes(recipes, in[1], in[2], in[3]) IN
        last' = [op |-> "filter_recipes", args |-> in,
                 raised |-> r.raised, result |-> r.value]
    /\ UNCHANGED <<pc, recipes, storage, added>>

\* a call of get_recipe_details
Details ==
    /\ pc = "ready"
    /\ \E name \in DetailInputs :
        last' = [op |-> "get_recipe_details", args |-> <<name>>, raised |-> FALSE,
                 result |-> get_recipe_details(recipes, name)]
    /\ UNCHANGED <<pc, recipes, storage, added>>

Next ==
    \/ Construct
    \/ Add
    \/ Recommend
    \/ Search
    \/ Filter
    \/ Details

Spec == Init /\ [][Next]_vars

(***************************************************************************)
(* Properties                                                              *)
(***************************************************************************)
\* the step is a call of add_recipe with arguments last'.args (a rejected call
\* repeated with the same arguments changes nothing and is a stuttering step)
IsAddStep == last'.op = "add_recipe" /\ vars' # vars

\* the names the file holds
stored(file, name) == file.kind = "json" /\ \E i \in 1..Len(file.doc) : file.doc[i][1] = name

C2_Original ==
    [][ (IsAddStep /\ ~has_key(recipes, last'.args[1])) =>
            /\ ~last'.raised
            /\ last'.result = TRUE
            /\ get_recipe_details(recipes', last'.args[1]) = Some(last'.args[2]) ]_vars

\* every recipe inserted in this session is returned with the fields supplied
C2_DetailsAreSupplied ==
    /\ \A i \in 1..Len(added) :
          /\ get_recipe_details(recipes, added[i][1]) = Some(added[i][2])
          /\ Len(added[i][2]["Rating"]) = 0 =>
                Len(get_recipe_details(recipes, added[i][1])[1]["Rating"]) = 0
    /\ (last.op = "get_recipe_details" /\ \E i \in 1..Len(added) : added[i][1] = last.args[1]) =>
          \E i \in 1..Len(added) : added[i][1] = last.args[1] /\ last.result = Some(added[i][2])

\* C2 (amended): every add_recipe whose name is not yet a key returns True
\* when save_recipes succeeds and otherwise lets the storage error reach the
\* caller; in both cases get_recipe_details(name) returns exactly the
\* supplied cuisine, ingredients, prep time, difficulty and rating at any later
\* point, an omitted rating as None and not as zero.
C2_AddThenDetails ==
    /\ []C2_DetailsAreSupplied
    /\ [][ (IsAddStep /\ ~has_key(recipes, last'.args[1])) =>
              /\ (~last'.raised => last'.result = TRUE)
              /\ (last'.raised <=> storage' # FileJson(json_dump(recipes')))
              /\ get_recipe_details(recipes', last'.args[1]) = Some(last'.args[2]) ]_vars

\* get_recipe_details was called for an unrated recipe inserted earlier, after a
\* further insertion, and returned it with Rating None
C2_Witness ==
    /\ last.op = "get_recipe_details"
    /\ Len(added) = 2
    /\ added[1][1] = last.args[1]
    /\ Len(added[1][2]["Rating"]) = 0
    /\ last.result = Some(added[1][2])

\* the file holds exactly self.recipes: a store constructed from it gets an
\* equal dict
Synced ==
    /\ storage.kind = "json"
    /\ Len(storage.doc) = Len(recipes)
    /\ ~_load_recipes(storage).raised
    /\ _load_recipes(storage).value = recipes

\* C3: after every add_recipe that returns True the file holds the whole of
\* self.recipes, every name with all five fields, so that a store constructed
\* from the file holds an equal collection; queries keep it so.
C3_RoundTrip ==
    /\ []((last.op = "add_recipe" /\ ~last.raised /\ last.result = TRUE) => Synced)
    /\ [][ (Synced /\ last'.op # "add_recipe") => Synced' ]_vars

\* a second insertion succeeded on a collection that holds an unrated recipe
\* and loaded recipes, and the file holds all of them
C3_Witness ==
    /\ last.op = "add_recipe" /\ ~last.raised /\ last.result = TRUE
    /\ Len(added) = 2 /\ Len(recipes) > 2
    /\ \E i \in 1..Len(recipes) : Len(recipes[i][2]["Rating"]) = 0
    /\ Synced

\* res is the names of the entries of d whose index satisfies Keep, each once
\* and in the iteration order of d
SelectedInOrder(res, d, Keep(_)) ==
    LET idx == {i \in 1..Len(d) : Keep(i)} IN
    /\ Len(res) = Cardinality(idx)
    /\ \A j \in 1..Len(res) :
          res[j] = d[CHOOSE i \in idx : Cardinality({k \in idx : k <= i}) = j][1]

\* a and b are equal ignoring case
SameIgnoringCase(a, b) ==
    Len(a) = Len(b) /\ \A i \in 1..Len(a) : lower_char(a[i]) = lower_char(b[i])

\* the recipe satisfies the constraints that are provided; as in section 4.1
\* a constraint that is None, zero or the empty string counts as absent
Satisfies(recipe, difficulty, max_time, min_rating) ==
    /\ truthy_str(difficulty) => SameIgnoringCase(recipe["Difficulty"], difficulty[1])
    /\ truthy_num(max_time) => recipe["Prep Time"] <= max_time[1]
    /\ truthy_num(min_rating) =>
          Len(recipe["Rating"]) = 1 /\ recipe["Rating"][1] >= min_rating[1]

\* C4: filter_recipes returns exactly the names of the recipes that satisfy all
\* provided constraints (difficulty equal ignoring case, prep time <= max_time,
\* rating >= min_rating), each once and in iteration order; on the sample data
\* filter_recipes("Easy", 30) returns ["Avocado Toast"].
C4_FilterExact ==
    last.op = "filter_recipes" =>
        /\ ~last.raised
        /\ SelectedInOrder(last.result, recipes,
              LAMBDA i : Satisfies(recipes[i][2], last.args[1], last.args[2], last.args[3]))
        /\ (recipes = SAMPLE /\ last.args = <<Some(Easy), Some(30), None>>) =>
              last.result = <<Avocado_Toast>>

\* C5: get_cuisine_recommendations, search_recipes and filter_recipes complete
\* and return a sequence of names, and get_recipe_details completes and returns
\* a recipe or None, in every reachable state of the collection including
\* those that hold an unrated recipe; none of them raises.
C5_QueriesTotal ==
    /\ last.op \in {"get_cuisine_recommendations", "search_recipes", "filter_recipes"} =>
          ~last.raised /\ \A j \in 1..Len(last.result) : has_key(recipes, last.result[j])
    /\ last.op = "get_recipe_details" =>
          /\ ~last.raised
          /\ Len(last.result) <= 1
          /\ ~has_key(recipes, last.args[1]) => last.result = None

\* C6: filter_recipes with max_time = 0 behaves as with max_time None, and with
\* min_rating = 0.0 as with min_rating None, whatever the other two constraints
\* are (same names, or the same error); a zero constraint alone excludes no
\* recipe, not even one with a positive prep time.
C6_ZeroIsAbsent ==
    pc = "ready" =>
        /\ \A d \in DifficultyDomain, r \in MinRatingDomain :
              filter_recipes(recipes, d, Some(0), r) = filter_recipes(recipes, d, None, r)
        /\ \A d \in DifficultyDomain, m \in MaxTimeDomain :
              filter_recipes(recipes, d, m, Some(0)) = filter_recipes(recipes, d, m, None)
        /\ filter_recipes(recipes, None, Some(0), None) = [raised |-> FALSE, value |-> keys(recipes)]
        /\ filter_recipes(recipes, None, None, Some(0)) = [raised |-> FALSE, value |-> keys(recipes)]
        /\ (last.op = "filter_recipes" /\ last.args \in {<<None, Some(0), None>>, <<None, None, Some(0)>>}) =>
              ~last.raised /\ last.result = keys(recipes)

\* filter_recipes(max_time=0) returned every name of a collection whose
\* recipes all take longer than 0 minutes
C6_Witness ==
    /\ last.op = "filter_recipes" /\ last.args = <<None, Some(0), None>>
    /\ Len(recipes) > 3
    /\ last.result = keys(recipes)
    /\ \A i \in 1..Len(recipes) : recipes[i][2]["Prep Time"] > 0

\* name contains query as a substring when both are compared ignoring case
ContainsIgnoringCase(query, name) ==
    \E k \in 0..(Len(name) - Len(query)) :
        \A j \in 1..Len(query) : lower_char(name[k + j]) = lower_char(query[j])

\* C7: search_recipes returns exactly the names that contain the query as a
\* substring ignoring case, each once and in iteration order; search_recipes("")
\* returns every name, and on the sample data search_recipes("Chicken") returns
\* ["Chicken Tikka Masala"].
C7_SearchExact ==
    pc = "ready" =>
        /\ \A q \in QueryDomain :
              SelectedInOrder(search_recipes(recipes, q), recipes,
                              LAMBDA i : ContainsIgnoringCase(q, recipes[i][1]))
        /\ search_recipes(recipes, EmptyStr) = keys(recipes)
        /\ recipes = SAMPLE => search_recipes(recipes, Chicken) = <<Chicken_Tikka_Masala>>
        /\ last.op = "search_recipes" =>
              SelectedInOrder(last.result, recipes,
                              LAMBDA i : ContainsIgnoringCase(last.args[1], recipes[i][1]))

\* search_recipes("PI") returned the two names that contain it in another case
C7_Witness ==
    /\ last.op = "search_recipes" /\ last.args = <<PI>>
    /\ Len(last.result) = 2
    /\ \E j \in 1..2 : last.result[j] = Pie
    /\ \E j \in 1..2 : last.result[j] = pi

\* get_cuisine_recommendations gives the same result for inputs that differ in
\* case only, the names of the recipes whose cuisine equals the input ignoring
\* case, in iteration order
C8_RecommendExact ==
    /\ \A c1, c2 \in CuisineDomain :
          SameIgnoringCase(c1, c2) =>
              get_cuisine_recommendations(recipes, c1) = get_cuisine_recommendations(recipes, c2)
    /\ \A c \in CuisineDomain :
          SelectedInOrder(get_cuisine_recommendations(recipes, c), recipes,
                          LAMBDA i : SameIgnoringCase(recipes[i][2]["Cuisine"], c))
    /\ last.op = "get_cuisine_recommendations" =>
          SelectedInOrder(last.result, recipes,
                          LAMBDA i : SameIgnoringCase(recipes[i][2]["Cuisine"], last.args[1]))
    /\ recipes = SAMPLE => get_cuisine_recommendations(recipes, French) = <<>>

\* C8 (as stated): as C8_RecommendExact, and an empty input or an input
\* matching no recipe's cuisine yields the empty sequence.
C8_Original ==
    pc = "ready" =>
        /\ C8_RecommendExact
        /\ \A c \in CuisineDomain :
              (\A i \in 1..Len(recipes) : ~SameIgnoringCase(recipes[i][2]["Cuisine"], c))
                  => get_cuisine_recommendations(recipes, c) = <<>>
        /\ (last.op = "get_cuisine_recommendations" /\ last.args = <<EmptyStr>>) =>
              last.result = <<>>

\* C8 (amended): get_cuisine_recommendations returns identical sequences for
\* inputs that differ only in letter case, namely exactly the names of the
\* recipes whose cuisine equals the input ignoring case, in iteration order; an
\* input matching no recipe's cuisine yields the empty sequence, and the empty
\* input yields exactly the recipes whose cuisine is the empty string.
C8_RecommendIgnoresCase ==
    pc = "ready" =>
        /\ C8_RecommendExact
        /\ \A c \in CuisineDomain :
              (\A i \in 1..Len(recipes) : ~SameIgnoringCase(recipes[i][2]["Cuisine"], c))
                  => get_cuisine_recommendations(recipes, c) = <<>>
        /\ SelectedInOrder(get_cuisine_recommendations(recipes, EmptyStr), recipes,
                           LAMBDA i : recipes[i][2]["Cuisine"] = EmptyStr)

\* get_cuisine_recommendations("ITALIAN") returned a recipe stored as "Italian"
\* and one stored as "italian"
C8_Witness ==
    /\ last.op = "get_cuisine_recommendations" /\ last.args = <<ITALIAN>>
    /\ Len(last.result) = 2
    /\ \E i \in 1..Len(recipes) : recipes[i][2]["Cuisine"] = Italian
    /\ \E i \in 1..Len(recipes) : recipes[i][2]["Cuisine"] = italian

\* C9: constructing a store never fails: from a missing or malformed file the
\* collection is exactly the sample data and no error reaches the caller; from
\* a well-formed file the collection is exactly the stored one, with no sample
\* entry that was not stored.
C9_ConstructNeverFails ==
    last.op = "__init__" =>
        /\ ~last.raised
        /\ pc = "ready"
        /\ storage.kind # "json" => recipes = SAMPLE
        /\ storage.kind = "json" =>
              /\ json_dump(recipes) = storage.doc
              /\ \A i \in 1..Len(SAMPLE) :
                    has_key(recipes, SAMPLE[i][1]) => stored(storage, SAMPLE[i][1])

\* C10: when save_recipes fails in an add_recipe of a new name, add_recipe does
\* not return True and the error reaches the caller, the recipe is in
\* self.recipes and not in the file; a repeated add of that name returns False
\* and writes nothing, and the name gets into the file only by a later
\* successful add of another name.
C10_FailedPersist ==
    /\ [][ (IsAddStep /\ last'.raised) =>
              /\ last'.result # TRUE
              /\ ~has_key(recipes, last'.args[1])
              /\ get_recipe_details(recipes', last'.args[1]) = Some(last'.args[2])
              /\ ~stored(storage', last'.args[1]) ]_vars
    /\ [][ \A n \in NameDomain :
              (has_key(recipes, n) /\ ~stored(storage, n)) =>
                  /\ (IsAddStep /\ last'.args[1] = n) =>
                        ~last'.raised /\ last'.result = FALSE /\ storage' = storage
                  /\ stored(storage', n) =>
                        /\ IsAddStep /\ ~last'.raised /\ last'.result = TRUE
                        /\ last'.args[1] # n ]_vars

\* a recipe whose save failed is in self.recipes and not in the file, and a
\* repeated add of its name has been rejected
C10_Witness ==
    /\ last.op = "add_recipe" /\ ~last.raised /\ last.result = FALSE
    /\ \E i \in 1..Len(added) : added[i][1] = last.args[1]
    /\ has_key(recipes, last.args[1])
    /\ ~stored(storage, last.args[1])
====
